---- MODULE Spec2Model ----
(***************************************************************************)
(* Encoder-to-decoder adapters of gluonts/mx/block/enc2dec.py.             *)
(*                                                                         *)
(* A tensor is a shape together with its elements, addressed by 0-based    *)
(* index tuples.  F.reshape and F.concat are modelled by what they do to   *)
(* shapes and to the element at every index.  The encoder outputs and the  *)
(* future features of one batch are drawn at Init; call sites invoke the   *)
(* three blocks on that batch, the integrator in its two statements.       *)
(***************************************************************************)
EXTENDS Integers, Sequences, FiniteSets

\* ------------------------------------------------------------------ bounds
MaxBatch == 2
MaxTime == 2
MaxFeat == 2
MaxHorizon == 2
MaxFutFeat == 2
\* every static tensor of the model has this many features
StaticFeat == 2

Sites == {"a", "b"}

\* ----------------------------------------------------------------- tensors
RECURSIVE Prod(_)
Prod(s) == IF s = <<>> THEN 1 ELSE Head(s) * Prod(Tail(s))

Front(s) == SubSeq(s, 1, Len(s) - 1)

\* Row-major offset of an index tuple, and its inverse.
RECURSIVE Ravel(_, _)
Ravel(shape, idx) ==
    IF shape = <<>> THEN 0
    ELSE Ravel(Front(shape), Front(idx)) * shape[Len(shape)] + idx[Len(shape)]

Stride(shape, i) == Prod(SubSeq(shape, i + 1, Len(shape)))

Unravel(shape, k) ==
    [i \in 1..Len(shape) |-> (k \div Stride(shape, i)) % shape[i]]

Indices(shape) == { Unravel(shape, k) : k \in 0..(Prod(shape) - 1) }

NoElems == [idx \in {} |-> 0]

\* The value an operation that raised leaves behind: no tensor.
NoTensor == [ok |-> FALSE, shape |-> <<>>, elems |-> NoElems]

Tensor(shape, elems) == [ok |-> TRUE, shape |-> shape, elems |-> elems]

\* A tensor whose elements are all different: seed + row-major offset.
Fill(shape, seed) ==
    Tensor(shape, [idx \in Indices(shape) |-> seed + Ravel(shape, idx)])

\* --------------------------------------------------------------- F.reshape
\* Target codes: 0 copies the input dimension at the same position, -1 is
\* inferred from the remaining elements, a positive number is taken as is.
InferReshapeShape(dshape, target) ==
    LET n == Len(target)
        inf == { i \in 1..n : target[i] = -1 }
        zerosOk == \A i \in 1..n : target[i] = 0 => i <= Len(dshape)
        known(i) == IF target[i] = 0 THEN dshape[i] ELSE target[i]
        rest == Prod([i \in 1..n |-> IF i \in inf THEN 1 ELSE known(i)])
        out == [i \in 1..n |->
                  IF i \in inf THEN Prod(dshape) \div rest ELSE known(i)]
    IN  IF ~zerosOk \/ Cardinality(inf) > 1
        THEN [ok |-> FALSE, shape |-> <<>>]
        ELSE IF Prod(out) # Prod(dshape)
        THEN [ok |-> FALSE, shape |-> <<>>]
        ELSE [ok |-> TRUE, shape |-> out]

F_reshape(data, target) ==
    LET r == InferReshapeShape(data.shape, target)
    IN  IF ~data.ok \/ ~r.ok THEN NoTensor
        ELSE Tensor(r.shape,
                [idx \in Indices(r.shape) |->
                    data.elems[Unravel(data.shape, Ravel(r.shape, idx))]])

\* ---------------------------------------------------------------- F.concat
\* dim is the 0-based axis; every other dimension has to agree.
ConcatShapesOk(a, b, dim) ==
    /\ Len(a) = Len(b)
    /\ dim < Len(a)
    /\ \A i \in 1..Len(a) : i # dim + 1 => a[i] = b[i]

F_concat(lhs, rhs, dim) ==
    IF ~lhs.ok \/ ~rhs.ok \/ ~ConcatShapesOk(lhs.shape, rhs.shape, dim)
    THEN NoTensor
    ELSE LET ax == dim + 1
             shape == [lhs.shape EXCEPT ![ax] = lhs.shape[ax] + rhs.shape[ax]]
         IN  Tensor(shape,
                [idx \in Indices(shape) |->
                    IF idx[ax] < lhs.shape[ax]
                    THEN lhs.elems[idx]
                    ELSE rhs.elems[[idx EXCEPT ![ax] = idx[ax] - lhs.shape[ax]]]])

\* ------------------------------------------------- hybrid_forward outcomes
Pending == [kind |-> "pending", items |-> <<>>, error |-> ""]

\* `pass` as the whole body: the call returns None.
ReturnedNone == [kind |-> "None", items |-> <<>>, error |-> ""]

Returned(items) == [kind |-> "tuple", items |-> items, error |-> ""]

\* The exception of the tensor operation op, propagating out of the call.
Raised(op) == [kind |-> "raise", items |-> <<>>, error |-> op]

\* ------------------------------------------------------------ the blocks
Blocks == {"Seq2SeqEnc2Dec", "PassThroughEnc2Dec", "FutureFeatIntegratorEnc2Dec"}

\* Variant: the base block forwards the encoder outputs.
Seq2SeqEnc2Dec_forwarding(encoder_output_static, encoder_output_dynamic, future_features_dynamic) ==
    Returned(<<encoder_output_static, encoder_output_dynamic>>)

Seq2SeqEnc2Dec(encoder_output_static, encoder_output_dynamic, future_features_dynamic) ==
    ReturnedNone

\* Variant: the pair is returned in the other order.
PassThroughEnc2Dec_swapped(encoder_output_static, encoder_output_dynamic, future_features_dynamic) ==
    Returned(<<encoder_output_dynamic, encoder_output_static>>)

\* Variant: the future tensor's shape is checked against the dynamic one.
PassThroughEnc2Dec_checked(encoder_output_static, encoder_output_dynamic, future_features_dynamic) ==
    IF /\ Len(future_features_dynamic.shape) = 4
       /\ future_features_dynamic.shape[1] = encoder_output_dynamic.shape[1]
    THEN Returned(<<encoder_output_static, encoder_output_dynamic>>)
    ELSE Raised("shape")

PassThroughEnc2Dec(encoder_output_static, encoder_output_dynamic, future_features_dynamic) ==
    Returned(<<encoder_output_static, encoder_output_dynamic>>)

\* Variant: the last two axes are flattened feature-major (transposed first).
FlattenFuture_transposed(future_features_dynamic) ==
    LET f == future_features_dynamic
    IN  IF Len(f.shape) # 4 THEN F_reshape(f, <<0, 0, -1>>)
        ELSE LET shape == <<f.shape[1], f.shape[2], f.shape[3] * f.shape[4]>>
             IN  Tensor(shape,
                    [idx \in Indices(shape) |->
                        f.elems[<<idx[1], idx[2],
                                  idx[3] % f.shape[3],
                                  idx[3] \div f.shape[3]>>]])

\* flatten the last two dimensions
FlattenFuture(future_features_dynamic) ==
    F_reshape(future_features_dynamic, <<0, 0, -1>>)

\* Variant: concatenation along the time axis.
TotalDecInputDynamic_time(encoder_output_dynamic, flat_future) ==
    F_concat(encoder_output_dynamic, flat_future, 1)

\* Variant: the future channels come first.
TotalDecInputDynamic_swapped(encoder_output_dynamic, flat_future) ==
    F_concat(flat_future, encoder_output_dynamic, 2)

\* Variant: a failed concatenation falls back to the dynamic tensor alone.
TotalDecInputDynamic_recover(encoder_output_dynamic, flat_future) ==
    LET t == F_concat(encoder_output_dynamic, flat_future, 2)
    IN  IF t.ok THEN t ELSE encoder_output_dynamic

\* concatenate output of decoder and future_feat_dynamic covariates
TotalDecInputDynamic(encoder_output_dynamic, flat_future) ==
    F_concat(encoder_output_dynamic, flat_future, 2)

\* Variant: the static tensor is returned flattened to one axis.
IntegratorReturn_flatStatic(encoder_output_static, total_dec_input_dynamic) ==
    Returned(<<F_reshape(encoder_output_static, <<-1>>), total_dec_input_dynamic>>)

IntegratorReturn(encoder_output_static, total_dec_input_dynamic) ==
    Returned(<<encoder_output_static, total_dec_input_dynamic>>)

\* The integrator run from entry to exit with nothing in between.
FutureFeatIntegratorEnc2Dec(encoder_output_static, encoder_output_dynamic, future_features_dynamic) ==
    LET flat == FlattenFuture(future_features_dynamic)
        total == TotalDecInputDynamic(encoder_output_dynamic, flat)
    IN  IF ~flat.ok THEN Raised("reshape")
        ELSE IF ~total.ok THEN Raised("concat")
        ELSE IntegratorReturn(encoder_output_static, total)

HybridForward(b, s, d, f) ==
    CASE b = "Seq2SeqEnc2Dec" -> Seq2SeqEnc2Dec(s, d, f)
      [] b = "PassThroughEnc2Dec" -> PassThroughEnc2Dec(s, d, f)
      [] b = "FutureFeatIntegratorEnc2Dec" -> FutureFeatIntegratorEnc2Dec(s, d, f)

\* ------------------------------------------------------------------ inputs
DynamicShapes ==
    { <<n, t, c>> : n \in 1..MaxBatch, t \in 1..MaxTime, c \in 1..MaxFeat }

FutureShapes4 ==
    { <<n, t, p, c>> : n \in 1..MaxBatch, t \in 1..MaxTime,
                       p \in 1..MaxHorizon, c \in 1..MaxFutFeat }

\* Futures of the documented rank, and of every lower rank.
FutureShapes ==
    FutureShapes4 \cup { SubSeq(s, 1, k) : s \in FutureShapes4, k \in 1..3 }

StaticTensor(n, c) == Fill(<<n, c>>, 100)
DynamicTensor(shape) == Fill(shape, 200)
FutureTensor(shape) == Fill(shape, 300)

\* ------------------------------------------------------------------- state
VARIABLES
    encoder_output_static,      \* the caller's tensors, shared by the call sites
    encoder_output_dynamic,
    future_features_dynamic,
    block,                      \* per call site: the block being run, or "none"
    pc,                         \* per call site: position in hybrid_forward
    frame,                      \* per call site: the local future_features_dynamic
    result                      \* per call site: what the call gave back

vars == <<encoder_output_static, encoder_output_dynamic, future_features_dynamic,
          block, pc, frame, result>>

inputs == <<encoder_output_static, encoder_output_dynamic, future_features_dynamic>>

Init ==
    /\ \E ds \in DynamicShapes :
          /\ encoder_output_dynamic = DynamicTensor(ds)
          /\ encoder_output_static = StaticTensor(ds[1], StaticFeat)
    /\ \E fs \in FutureShapes : future_features_dynamic = FutureTensor(fs)
    /\ block = [c \in Sites |-> "none"]
    /\ pc = [c \in Sites |-> "idle"]
    /\ frame = [c \in Sites |-> NoTensor]
    /\ result = [c \in Sites |-> Pending]

\* A call site calls block b; the parameters are bound to the caller's tensors.
Invoke(c, b) ==
    /\ pc[c] = "idle"
    /\ block' = [block EXCEPT ![c] = b]
    /\ pc' = [pc EXCEPT ![c] = "enter"]
    /\ frame' = [frame EXCEPT ![c] = future_features_dynamic]
    /\ result' = [result EXCEPT ![c] = Pending]
    /\ UNCHANGED inputs

RunSeq2Seq(c) ==
    /\ pc[c] = "enter"
    /\ block[c] = "Seq2SeqEnc2Dec"
    /\ result' = [result EXCEPT ![c] =
            Seq2SeqEnc2Dec(encoder_output_static, encoder_output_dynamic, frame[c])]
    /\ pc' = [pc EXCEPT ![c] = "returned"]
    /\ UNCHANGED <<inputs, block, frame>>

RunPassThrough(c) ==
    /\ pc[c] = "enter"
    /\ block[c] = "PassThroughEnc2Dec"
    /\ result' = [result EXCEPT ![c] =
            PassThroughEnc2Dec(encoder_output_static, encoder_output_dynamic, frame[c])]
    /\ pc' = [pc EXCEPT ![c] = "returned"]
    /\ UNCHANGED <<inputs, block, frame>>

\* Variant: the reshape is done in place on the caller's tensor.
IntegratorReshape_inplace(c) ==
    /\ pc[c] = "enter"
    /\ block[c] = "FutureFeatIntegratorEnc2Dec"
    /\ LET flat == FlattenFuture(frame[c])
       IN  IF flat.ok
           THEN /\ frame' = [frame EXCEPT ![c] = flat]
                /\ future_features_dynamic' = flat
                /\ pc' = [pc EXCEPT ![c] = "concat"]
                /\ UNCHANGED result
           ELSE /\ result' = [result EXCEPT ![c] = Raised("reshape")]
                /\ pc' = [pc EXCEPT ![c] = "raised"]
                /\ UNCHANGED <<frame, future_features_dynamic>>
    /\ UNCHANGED <<encoder_output_static, encoder_output_dynamic, block>>

\* lines 147-149: the local name is rebound to the flattened tensor
IntegratorReshape(c) ==
    /\ pc[c] = "enter"
    /\ block[c] = "FutureFeatIntegratorEnc2Dec"
    /\ LET flat == FlattenFuture(frame[c])
       IN  IF flat.ok
           THEN /\ frame' = [frame EXCEPT ![c] = flat]
                /\ pc' = [pc EXCEPT ![c] = "concat"]
                /\ UNCHANGED result
           ELSE /\ result' = [result EXCEPT ![c] = Raised("reshape")]
                /\ pc' = [pc EXCEPT ![c] = "raised"]
                /\ UNCHANGED frame
    /\ UNCHANGED <<inputs, block>>

\* lines 153-160: concatenate and return
IntegratorConcat(c) ==
    /\ pc[c] = "concat"
    /\ block[c] = "FutureFeatIntegratorEnc2Dec"
    /\ LET total == TotalDecInputDynamic(encoder_output_dynamic, frame[c])
       IN  IF total.ok
           THEN /\ result' = [result EXCEPT ![c] =
                                IntegratorReturn(encoder_output_static, total)]
                /\ pc' = [pc EXCEPT ![c] = "returned"]
           ELSE /\ result' = [result EXCEPT ![c] = Raised("concat")]
                /\ pc' = [pc EXCEPT ![c] = "raised"]
    /\ UNCHANGED <<inputs, block, frame>>

\* The caller has taken the outcome; the call's frame is gone.
Finish(c) ==
    /\ pc[c] \in {"returned", "raised"}
    /\ pc' = [pc EXCEPT ![c] = "idle"]
    /\ block' = [block EXCEPT ![c] = "none"]
    /\ frame' = [frame EXCEPT ![c] = NoTensor]
    /\ result' = [result EXCEPT ![c] = Pending]
    /\ UNCHANGED inputs

Next ==
    \/ \E c \in Sites, b \in Blocks : Invoke(c, b)
    \/ \E c \in Sites : RunSeq2Seq(c)
    \/ \E c \in Sites : RunPassThrough(c)
    \/ \E c \in Sites : IntegratorReshape(c)
    \/ \E c \in Sites : IntegratorConcat(c)
    \/ \E c \in Sites : Finish(c)

Spec == Init /\ [][Next]_vars

\* ---------------------------------------------------------------- helpers
Integ == "FutureFeatIntegratorEnc2Dec"
Pass == "PassThroughEnc2Dec"
Base == "Seq2SeqEnc2Dec"

Over(c) == pc[c] \in {"returned", "raised"}

\* Same shape and the same element at every index.
TensorEq(a, b) ==
    /\ a.ok /\ b.ok
    /\ a.shape = b.shape
    /\ \A idx \in Indices(b.shape) : a.elems[idx] = b.elems[idx]

\* dynamic is (N, T, C) and future is (N, T, P, C') with the same N and T.
ValidInputs ==
    /\ Len(encoder_output_dynamic.shape) = 3
    /\ Len(future_features_dynamic.shape) = 4
    /\ future_features_dynamic.shape[1] = encoder_output_dynamic.shape[1]
    /\ future_features_dynamic.shape[2] = encoder_output_dynamic.shape[2]

\* Futures other than the one of the batch: every shape, two fillings.
FutureAlternatives ==
    { Fill(fs, seed) : fs \in FutureShapes, seed \in {300, 700} }

\* --------------------------------------------------------------- C1
\* C1: a finished PassThroughEnc2Dec call has returned the pair whose first
\* tensor equals encoder_output_static and whose second tensor equals
\* encoder_output_dynamic, in shape and in every element.
C1_PassThroughReturnsInputs ==
    \A c \in Sites :
        (block[c] = Pass /\ Over(c)) =>
            /\ result[c].kind = "tuple"
            /\ Len(result[c].items) = 2
            /\ TensorEq(result[c].items[1], encoder_output_static)
            /\ TensorEq(result[c].items[2], encoder_output_dynamic)

C1_Witness ==
    \E c \in Sites :
        /\ block[c] = Pass /\ pc[c] = "returned"
        /\ encoder_output_static.shape = <<2, StaticFeat>>
        /\ encoder_output_dynamic.shape = <<2, 2, 2>>
        /\ Len(future_features_dynamic.shape) = 4

\* --------------------------------------------------------------- C2
\* C2: on dynamic (N, T, C) and future (N, T, P, C') a finished integrator
\* call has returned, and its dynamic tensor has shape (N, T, C + P*C').
C2_IntegratorShape ==
    \A c \in Sites :
        (block[c] = Integ /\ Over(c) /\ ValidInputs) =>
            /\ result[c].kind = "tuple"
            /\ Len(result[c].items) = 2
            /\ result[c].items[2].shape =
                  << encoder_output_dynamic.shape[1],
                     encoder_output_dynamic.shape[2],
                     encoder_output_dynamic.shape[3]
                       + future_features_dynamic.shape[3]
                         * future_features_dynamic.shape[4] >>

C2_Witness ==
    \E c \in Sites :
        /\ block[c] = Integ /\ pc[c] = "returned"
        /\ encoder_output_dynamic.shape = <<2, 2, 2>>
        /\ future_features_dynamic.shape = <<2, 2, 2, 1>>
        /\ result[c].items[2].shape = <<2, 2, 4>>

\* --------------------------------------------------------------- C3
\* C3: on valid input, at every (b, t) of the returned dynamic tensor,
\* channel c < C is dynamic[b,t,c] and channel C + p*C' + f is
\* future[b,t,p,f].
C3_ConcatOrder ==
    \A c \in Sites :
        (block[c] = Integ /\ pc[c] = "returned" /\ ValidInputs) =>
            LET out == result[c].items[2]
                d == encoder_output_dynamic
                f == future_features_dynamic
                C == d.shape[3]
                P == f.shape[3]
                Cf == f.shape[4]
            IN  \A b \in 0..(d.shape[1] - 1), t \in 0..(d.shape[2] - 1) :
                    /\ \A ch \in 0..(C - 1) :
                          out.elems[<<b, t, ch>>] = d.elems[<<b, t, ch>>]
                    /\ \A p \in 0..(P - 1), ff \in 0..(Cf - 1) :
                          out.elems[<<b, t, C + p * Cf + ff>>]
                            = f.elems[<<b, t, p, ff>>]

C3_Witness ==
    \E c \in Sites :
        /\ block[c] = Integ /\ pc[c] = "returned"
        /\ encoder_output_dynamic.shape = <<2, 2, 2>>
        /\ future_features_dynamic.shape = <<2, 2, 2, 2>>
        /\ result[c].items[2].elems[<<1, 1, 3>>]
             = future_features_dynamic.elems[<<1, 1, 0, 1>>]

\* --------------------------------------------------------------- C4
\* C4: whichever of the two adapters returned, the first tensor of the pair
\* equals encoder_output_static in shape and in every element, and the
\* second has the batch and time dimensions of encoder_output_dynamic.
C4_StaticUnchanged ==
    \A c \in Sites :
        (block[c] \in {Pass, Integ} /\ pc[c] = "returned") =>
            /\ TensorEq(result[c].items[1], encoder_output_static)
            /\ Len(result[c].items[2].shape) = 3
            /\ result[c].items[2].shape[1] = encoder_output_dynamic.shape[1]
            /\ result[c].items[2].shape[2] = encoder_output_dynamic.shape[2]

C4_Witness ==
    \E c \in Sites :
        /\ block[c] = Integ /\ pc[c] = "returned" /\ ValidInputs
        /\ encoder_output_static.shape = <<2, StaticFeat>>
        /\ result[c].items[2].shape[3] > encoder_output_dynamic.shape[3]

\* --------------------------------------------------------------- C5
\* C5: a returned integrator call has given back three tensors: the static
\* one, a dynamic one of the shape of encoder_output_dynamic, and a third
\* of shape (1,).
C5_ThreeTensors ==
    \A c \in Sites :
        (block[c] = Integ /\ pc[c] = "returned" /\ ValidInputs) =>
            /\ Len(result[c].items) = 3
            /\ Len(result[c].items[1].shape) = 2
            /\ result[c].items[2].shape = encoder_output_dynamic.shape
            /\ result[c].items[3].shape = <<1>>

\* --------------------------------------------------------------- C6
\* C6: a finished PassThroughEnc2Dec call has not raised, and its outcome is
\* the outcome of the call on the same static and dynamic tensors with any
\* other future tensor, whatever that tensor's rank, batch, time or values.
C6_PassThroughIgnoresFuture ==
    \A c \in Sites :
        (block[c] = Pass /\ Over(c)) =>
            /\ pc[c] = "returned"
            /\ \A f2 \in FutureAlternatives :
                  /\ PassThroughEnc2Dec(encoder_output_static,
                                        encoder_output_dynamic, f2).kind = "tuple"
                  /\ PassThroughEnc2Dec(encoder_output_static,
                                        encoder_output_dynamic, f2) = result[c]

C6_Witness ==
    \E c \in Sites :
        /\ block[c] = Pass /\ pc[c] = "returned"
        /\ Len(future_features_dynamic.shape) = 2
        /\ future_features_dynamic.shape[1] # encoder_output_dynamic.shape[1]

\* --------------------------------------------------------------- C7
\* C7: when the future tensor's batch size or time length differs from the
\* dynamic tensor's, a finished integrator call has raised the error of the
\* concatenate operation and has returned nothing.
BatchOrTimeMismatch ==
    /\ Len(future_features_dynamic.shape) >= 2
    /\ \/ future_features_dynamic.shape[1] # encoder_output_dynamic.shape[1]
       \/ future_features_dynamic.shape[2] # encoder_output_dynamic.shape[2]

C7_MismatchRaises ==
    \A c \in Sites :
        (block[c] = Integ /\ Over(c) /\ BatchOrTimeMismatch) =>
            /\ pc[c] = "raised"
            /\ result[c] = Raised("concat")

C7_Witness ==
    \E c \in Sites :
        /\ block[c] = Integ /\ pc[c] = "raised"
        /\ Len(future_features_dynamic.shape) = 4
        /\ future_features_dynamic.shape[1] = encoder_output_dynamic.shape[1]
        /\ future_features_dynamic.shape[2] # encoder_output_dynamic.shape[2]

\* --------------------------------------------------------------- C8
\* C8: once the integrator has flattened a future of shape (N, T, P, C'),
\* the flattened tensor has shape (N, T, P*C'), and reshaping it to
\* (N, T, P, C') gives the original future, element for element.
C8_ReshapeRoundTrip ==
    \A c \in Sites :
        (block[c] = Integ /\ pc[c] = "concat"
            /\ Len(future_features_dynamic.shape) = 4) =>
            /\ frame[c].shape =
                  << future_features_dynamic.shape[1],
                     future_features_dynamic.shape[2],
                     future_features_dynamic.shape[3]
                       * future_features_dynamic.shape[4] >>
            /\ TensorEq(F_reshape(frame[c], future_features_dynamic.shape),
                        future_features_dynamic)

C8_Witness ==
    \E c \in Sites :
        /\ block[c] = Integ /\ pc[c] = "concat"
        /\ future_features_dynamic.shape = <<2, 2, 2, 2>>
        /\ frame[c].shape = <<2, 2, 4>>

\* --------------------------------------------------------------- C9
\* C9: in every step of every interleaving the caller's three tensors stay
\* as they are, and a call that is over holds the outcome of the same block
\* run alone on those tensors.
C9_Interleaving ==
    [][ /\ inputs' = inputs
        /\ \A c \in Sites :
              (pc'[c] \in {"returned", "raised"}) =>
                  result'[c] = HybridForward(block'[c], encoder_output_static,
                                             encoder_output_dynamic,
                                             future_features_dynamic) ]_vars

\* Both call sites in the middle of the integrator at once.
C9_Witness ==
    /\ block["a"] = Integ /\ pc["a"] = "concat"
    /\ block["b"] = Integ /\ pc["b"] = "returned"
    /\ ValidInputs

\* --------------------------------------------------------------- C10
\* C10: a finished call of the base block Seq2SeqEnc2Dec holds no pair of
\* tensors: it has given back nothing a decoder could unpack.
C10_BaseGivesNoPair ==
    \A c \in Sites :
        (block[c] = Base /\ Over(c)) =>
            /\ result[c].kind # "tuple"
            /\ result[c].items = <<>>

C10_Witness ==
    \E c \in Sites :
        /\ block[c] = Base /\ pc[c] = "returned"
        /\ result[c].kind = "None"

====
